---- MODULE Spec2Model ----
(***************************************************************************)
(* Model of the sparki client (platforms/sparki): the frame transport, the *)
(* command set, the Connect handshake with its background receive task and *)
(* timer, and Disconnect with its halt sequence.                            *)
(*                                                                         *)
(* One controlling flow issues the public calls one after the other; each  *)
(* Connect call that gets past its connected check starts one goroutine.   *)
(* The stream is the environment: every Write, Read and Close returns      *)
(* either success or an error, and a Read may stay blocked for ever (its   *)
(* step is simply not taken).                                              *)
(***************************************************************************)
EXTENDS Integers, Sequences, FiniteSets, Bags, TLC

(***************************************************************************)
(* Bounds of the model.                                                    *)
(***************************************************************************)
\* width of the machine word (int, uint); 64 in the build, bounded here
WordBits == 8
\* number of goroutines of Connect that are alive at once
MaxTasks == 2
\* number of I/O errors the stream returns to the controlling flow in one call
MaxFaults == 1
\* number of payload bytes the board sends before the terminator
MaxPayload == 1

(***************************************************************************)
(* myro codes (decimal values of the hexadecimal constants).               *)
(***************************************************************************)
ETB == 23
BadCommand == 91
LCDClear == 48
LCDDrawPixel == 51
LCDUpdate == 57
Motors == 65
BackwardCM == 66
ForwardCM == 67
SetRGBLED == 73
SetStatusLED == 74
Stop == 75
NOOP == 90
Gamepad == 101
Init == 122

\* the handshake timeout New() sets, in seconds
ConnectTimeout == 5
\* capacity of a channel made without a buffer
ChanUnbuffered == Len(<< >>)
\* capacity of the channels connected and connectError
ChanCap == 1

\* error values
ErrNil == "nil"
ErrConnected == "client is already connected"
ErrTimeout == "unable to connect"
ErrWrite == "write error"
ErrRead == "read error"
ErrClose == "close error"

\* the streams handed to Connect; 0 is the nil handle
Conns == {1, 2}
NilConn == 0

(***************************************************************************)
(* Command encoder.                                                        *)
(***************************************************************************)
Pow2(n) == 2 ^ n

IntMin == 0 - Pow2(WordBits - 1)
IntMax == Pow2(WordBits - 1) - 1
UintMax == Pow2(WordBits) - 1

RECURSIVE FormatDigits(_)
\* the decimal digits (ASCII) of n >= 0, most significant first
FormatDigits(n) ==
    IF n < 10 THEN << 48 + n >>
    ELSE FormatDigits(n \div 10) \o << 48 + (n % 10) >>

\* strconv.Itoa: '-' and the digits of the magnitude for a negative value
Itoa(value) ==
    IF value < 0 THEN << 45 >> \o FormatDigits(0 - value)
    ELSE FormatDigits(value)

\* the conversion int(value) of a uint: the same bits read as two's complement
ToInt(value) ==
    IF value >= Pow2(WordBits - 1) THEN value - Pow2(WordBits) ELSE value

intCharArray(value) == Itoa(value)

uintCharArray(value) == intCharArray(ToInt(value))

RECURSIVE ParseDigits(_)
\* the number a sequence of ASCII digits denotes
ParseDigits(s) ==
    IF s = << >> THEN 0
    ELSE 10 * ParseDigits(SubSeq(s, 1, Len(s) - 1)) + (s[Len(s)] - 48)

\* strconv.Atoi: the decoder of the integer tokens
Atoi(s) ==
    IF s # << >> /\ s[1] = 45 THEN 0 - ParseDigits(Tail(s))
    ELSE ParseDigits(s)

RECURSIVE TrimZeros(_)
\* a digit sequence without its trailing '0' digits
TrimZeros(s) ==
    IF s # << >> /\ s[Len(s)] = 48 THEN TrimZeros(SubSeq(s, 1, Len(s) - 1))
    ELSE s

\* the three digits of n in 0..999
Digits3(n) == << 48 + (n \div 100), 48 + ((n \div 10) % 10), 48 + (n % 10) >>

\* strconv.FormatFloat(v, 'f', -1, 32) for the float32 values value/8: these
\* are exact in binary and their shortest decimal text is the exact expansion
floatCharArray(value) ==
    LET mag == IF value < 0 THEN 0 - value ELSE value
        frac == TrimZeros(Digits3((mag % 8) * 125))
    IN  (IF value < 0 THEN << 45 >> ELSE << >>)
        \o FormatDigits(mag \div 8)
        \o (IF frac = << >> THEN << >> ELSE << 46 >> \o frac)

(***************************************************************************)
(* Command set: a command is the sequence of its frames, each sent with    *)
(* transmit (sync = FALSE) or transmitSync (sync = TRUE).  A failed write  *)
(* ends the command: every later send is guarded by err == nil.           *)
(***************************************************************************)
Async(data) == [data |-> data, sync |-> FALSE]
Sync(data) == [data |-> data, sync |-> TRUE]

StopCmd == << Sync(<< Stop >>) >>

LCDUpdateCmd == << Sync(<< LCDUpdate >>) >>

LCDClearCmd(update) ==
    << Sync(<< LCDClear >>) >> \o (IF update THEN LCDUpdateCmd ELSE << >>)

EnableGamepadCmd == << Sync(<< Gamepad >>) >>

\* DrawPixel that sends y with transmit, not transmitSync
DrawPixelNoSync(x, y) ==
    << Async(<< LCDDrawPixel >>), Async(uintCharArray(x)), Async(uintCharArray(y)) >>

DrawPixelCmd(x, y) ==
    << Async(<< LCDDrawPixel >>), Async(uintCharArray(x)), Sync(uintCharArray(y)) >>

SetRGBLEDCmd(red, green, blue) ==
    << Async(<< SetRGBLED >>), Async(uintCharArray(red)),
       Async(uintCharArray(green)), Sync(uintCharArray(blue)) >>

SetStatusLEDCmd(brightness) ==
    << Async(<< SetStatusLED >>), Sync(uintCharArray(brightness)) >>

\* DigitalWrite that drives the LED with the pin number
DigitalWriteByPin(pin, value) ==
    IF value > 0 THEN SetStatusLEDCmd(pin) ELSE SetStatusLEDCmd(0)

DigitalWriteCmd(pin, value) ==
    IF value > 0 THEN SetStatusLEDCmd(100) ELSE SetStatusLEDCmd(0)

MoveBackwardCmd(cm) == << Async(<< BackwardCM >>), Sync(floatCharArray(cm)) >>

MoveForwardCmd(cm) == << Async(<< ForwardCM >>), Sync(floatCharArray(cm)) >>

MoveCmd(left, right, secs) ==
    << Async(<< Motors >>), Async(intCharArray(left)),
       Async(intCharArray(right)), Sync(floatCharArray(secs)) >>

\* the commands Disconnect runs before it closes the stream, in order; the
\* error each returns is dropped
haltFunctions ==
    << StopCmd, SetRGBLEDCmd(0, 0, 0), SetStatusLEDCmd(0), LCDClearCmd(TRUE) >>

\* the arguments the controlling flow passes
UintArgs == {10, UintMax}
IntArgs == {55, -30}
\* float32 arguments in eighths: 2.5 and -1.5
FloatArgs == {20, -12}
Pins == {2, 13}
Levels == {-1, 0, 1}

(***************************************************************************)
(* State.                                                                  *)
(***************************************************************************)
VARIABLES
    connected,    \* Client.connected
    connection,   \* Client.connection: a stream of Conns, or NilConn
    pc,           \* where the controlling flow is
    call,         \* the call the controlling flow is in, or has last returned from
    todo,         \* the commands the call still has to send, frame by frame
    err,          \* the local err of the function that is running
    log,          \* what the call did to the stream and the state, in order
    ret,          \* what the call returned, and the state it returned in
    elapsed,      \* seconds since the timer of select was started
    tasks,        \* the goroutines of Connect that are alive (a bag), each
                  \* with the channels of its call
    faults,       \* I/O errors the stream has returned in this call
    encArg,       \* encoder check: the kind and the value of the argument
    encTok        \* encoder check: the token the encoder returned

vars == << connected, connection, pc, call, todo, err, log, ret,
           elapsed, tasks, faults, encArg, encTok >>

encVars == << encArg, encTok >>

WriteEv(data, ok) == [k |-> "write", data |-> data, ok |-> ok]
ReadEv(ok) == [k |-> "read", data |-> << >>, ok |-> ok]
CloseEv(ok) == [k |-> "close", data |-> << >>, ok |-> ok]
StoreEv(c) == [k |-> "setConnected", data |-> << c >>, ok |-> TRUE]

\* the results a Write, Read or Close of the stream can have
Outcomes == IF faults < MaxFaults THEN {TRUE, FALSE} ELSE {TRUE}

Count(ok) == IF ok THEN faults ELSE faults + 1

\* the call has not returned yet
NoRet == [err |-> "none", connected |-> FALSE, elapsed |-> 0, task |-> "none"]

\* New(): no handle, not connected, 5 seconds of timeout
New ==
    /\ connected = FALSE
    /\ connection = NilConn
    /\ pc = "idle"
    /\ call = [name |-> "New", args |-> << >>]
    /\ todo = << >>
    /\ err = ErrNil
    /\ log = << >>
    /\ ret = [NoRet EXCEPT !.err = ErrNil]
    /\ elapsed = 0
    /\ tasks = EmptyBag
    /\ faults = 0
    /\ encArg = [kind |-> "none", n |-> 0]
    /\ encTok = << >>

\* Connected() that always answers false
ConnectedNever == FALSE

Connected == connected

setConnected(c) == connected' = c


\* the goroutine of the Connect call that is waiting in select
Cur == CHOOSE g \in BagToSet(tasks) : g.cur

\* the call returns e to the controlling flow; ret keeps, with e, what
\* Connected() is at that moment, the age of the timer and where the
\* goroutine of the call is
Return(e) ==
    /\ pc' = "idle"
    /\ ret' = [err |-> e, connected |-> connected, elapsed |-> elapsed,
               task |-> IF pc = "select" THEN Cur.pc ELSE "none"]

\* a public method is called: its commands are queued
Begin(name, args, cmds) ==
    /\ pc = "idle"
    /\ call' = [name |-> name, args |-> args]
    /\ todo' = cmds
    /\ err' = ErrNil
    /\ log' = << >>
    /\ faults' = 0
    /\ ret' = NoRet
    /\ pc' = "tx"
    /\ UNCHANGED << connected, connection, elapsed, tasks, encVars >>

Stop_ ==
    /\ pc = "idle"
    /\ Begin("Stop", << >>, << StopCmd >>)

LCDClear_ ==
    /\ pc = "idle"
    /\ \E update \in BOOLEAN :
        Begin("LCDClear", << update >>, << LCDClearCmd(update) >>)

LCDUpdate_ ==
    /\ pc = "idle"
    /\ Begin("LCDUpdate", << >>, << LCDUpdateCmd >>)

EnableGamepad_ ==
    /\ pc = "idle"
    /\ Begin("EnableGamepad", << >>, << EnableGamepadCmd >>)

DrawPixel_ ==
    /\ pc = "idle"
    /\ \E x \in UintArgs, y \in UintArgs :
        Begin("DrawPixel", << x, y >>, << DrawPixelCmd(x, y) >>)

SetRGBLED_ ==
    /\ pc = "idle"
    /\ \E red \in UintArgs, green \in UintArgs, blue \in UintArgs :
        Begin("SetRGBLED", << red, green, blue >>, << SetRGBLEDCmd(red, green, blue) >>)

SetStatusLED_ ==
    /\ pc = "idle"
    /\ \E brightness \in UintArgs :
        Begin("SetStatusLED", << brightness >>, << SetStatusLEDCmd(brightness) >>)

DigitalWrite_ ==
    /\ pc = "idle"
    /\ \E pin \in Pins, value \in Levels :
        Begin("DigitalWrite", << pin, value >>, << DigitalWriteCmd(pin, value) >>)

MoveBackward_ ==
    /\ pc = "idle"
    /\ \E cm \in FloatArgs :
        Begin("MoveBackward", << cm >>, << MoveBackwardCmd(cm) >>)

MoveForward_ ==
    /\ pc = "idle"
    /\ \E cm \in FloatArgs :
        Begin("MoveForward", << cm >>, << MoveForwardCmd(cm) >>)

Move_ ==
    /\ pc = "idle"
    /\ \E left \in IntArgs, right \in IntArgs, secs \in FloatArgs :
        Begin("Move", << left, right, secs >>, << MoveCmd(left, right, secs) >>)

Disconnect_ ==
    /\ pc = "idle"
    /\ Begin("Disconnect", << >>, haltFunctions)

\* the queue without the frame just sent
Pop(td) ==
    IF Len(Head(td)) = 1 THEN Tail(td)
    ELSE << Tail(Head(td)) >> \o Tail(td)

\* what transmitSync returns, from the results of its transmit and clearSync
transmitSync(writeErr, readErr) == writeErr

\* transmit whose error does not end the command: the next frame is sent
transmitNoAbort ==
    /\ pc = "tx"
    /\ todo # << >>
    /\ IF connection = NilConn
       THEN /\ pc' = "panicked"
            /\ UNCHANGED << todo, err, log, faults >>
       ELSE \E ok \in Outcomes :
            /\ log' = Append(log, WriteEv(Append(Head(Head(todo)).data, ETB), ok))
            /\ faults' = Count(ok)
            /\ pc' = IF ok /\ Head(Head(todo)).sync THEN "clearSync" ELSE "tx"
            /\ todo' = IF ok /\ Head(Head(todo)).sync THEN todo ELSE Pop(todo)
            /\ err' = IF ok THEN err ELSE ErrWrite
    /\ UNCHANGED << connected, connection, call, ret, elapsed, tasks, encVars >>

\* transmit: the frame is the data and the terminator; a nil handle panics
transmit ==
    /\ pc = "tx"
    /\ todo # << >>
    /\ IF connection = NilConn
       THEN /\ pc' = "panicked"
            /\ UNCHANGED << todo, err, log, faults >>
       ELSE \E ok \in Outcomes :
            /\ log' = Append(log, WriteEv(Append(Head(Head(todo)).data, ETB), ok))
            /\ faults' = Count(ok)
            /\ IF ok
               THEN /\ pc' = IF Head(Head(todo)).sync THEN "clearSync" ELSE "tx"
                    /\ todo' = IF Head(Head(todo)).sync THEN todo ELSE Pop(todo)
                    /\ err' = err
               ELSE /\ pc' = "tx"
                    /\ todo' = Tail(todo)
                    /\ err' = ErrWrite
    /\ UNCHANGED << connected, connection, call, ret, elapsed, tasks, encVars >>

\* clearSync of transmitSync: one byte is read as the acknowledgment
clearSync ==
    /\ pc = "clearSync"
    /\ \E ok \in Outcomes :
        LET e == transmitSync(ErrNil, IF ok THEN ErrNil ELSE ErrRead)
        IN  /\ log' = Append(log, ReadEv(ok))
            /\ faults' = Count(ok)
            /\ todo' = IF e = ErrNil THEN Pop(todo) ELSE Tail(todo)
            /\ err' = IF e = ErrNil THEN err ELSE e
    /\ pc' = "tx"
    /\ UNCHANGED << connected, connection, call, ret, elapsed, tasks, encVars >>

\* a command method returns its err
ReturnCmd ==
    /\ pc = "tx"
    /\ todo = << >>
    /\ call.name # "Disconnect"
    /\ Return(err)
    /\ UNCHANGED << connected, connection, call, todo, err, log, elapsed,
                    tasks, faults, encVars >>

\* Disconnect, after haltFunctions: setConnected(false)
DisconnectSetConnected ==
    /\ pc = "tx"
    /\ todo = << >>
    /\ call.name = "Disconnect"
    /\ setConnected(FALSE)
    /\ log' = Append(log, StoreEv(FALSE))
    /\ pc' = "close"
    /\ UNCHANGED << connection, call, todo, err, ret, elapsed, tasks,
                    faults, encVars >>

\* Disconnect: return b.connection.Close()
DisconnectClose ==
    /\ pc = "close"
    /\ \E ok \in Outcomes :
        /\ log' = Append(log, CloseEv(ok))
        /\ faults' = Count(ok)
        /\ Return(IF ok THEN ErrNil ELSE ErrClose)
    /\ UNCHANGED << connected, connection, call, todo, err, elapsed,
                    tasks, encVars >>

(***************************************************************************)
(* Connect: the handshake.                                                 *)
(***************************************************************************)
\* Reset does nothing yet
Reset == ErrNil

\* the err Connect tests after b.sendInit(): the result of sendInit is not
\* assigned, so it is still the err of Reset
sendInitErr(resetErr, writeErr) == resetErr

\* a goroutine as go func() starts it, with the two channels of its call;
\* err: the last err of b.read(1) in receive and in its clearSync, e: what
\* receive returned; cur: its Connect call has not returned yet
NewTask ==
    [pc |-> "read", inCount |-> 0, err |-> ErrNil, e |-> ErrNil, cur |-> TRUE,
     connected |-> << >>, connectError |-> << >>]

Replace(g, h) == tasks' = (tasks (-) SetToBag({g})) (+) SetToBag({h})

\* Connect returns: nothing refers to its channels any more, and its
\* goroutine is gone if it has ended
Leave ==
    tasks' = IF Cur.pc = "done" THEN tasks (-) SetToBag({Cur})
             ELSE (tasks (-) SetToBag({Cur}))
                  (+) SetToBag({[Cur EXCEPT !.cur = FALSE,
                                            !.connected = << >>,
                                            !.connectError = << >>]})

\* Connect(conn) is called
ConnectCall ==
    /\ pc = "idle"
    /\ connected \/ BagCardinality(tasks) < MaxTasks
    /\ \E conn \in Conns : call' = [name |-> "Connect", args |-> << conn >>]
    /\ log' = << >>
    /\ faults' = 0
    /\ err' = ErrNil
    /\ ret' = NoRet
    /\ pc' = "connect"
    /\ UNCHANGED << connected, connection, todo, elapsed, tasks, encVars >>

\* Connect: the test of b.Connected(), then b.connection = conn and Reset
Connect_ ==
    /\ pc = "connect"
    /\ IF Connected
       THEN /\ Return(ErrConnected)
            /\ UNCHANGED << connection, err >>
       ELSE /\ connection' = call.args[1]
            /\ err' = Reset
            /\ IF Reset # ErrNil THEN Return(Reset)
               ELSE pc' = "sendInit" /\ ret' = ret
    /\ UNCHANGED << connected, call, todo, log, elapsed, tasks, faults, encVars >>

\* b.sendInit() and the test of err that follows it
ConnectSendInit ==
    /\ pc = "sendInit"
    /\ \E ok \in Outcomes :
        LET e == sendInitErr(err, IF ok THEN ErrNil ELSE ErrWrite)
        IN  /\ log' = Append(log, WriteEv(<< Init, ETB >>, ok))
            /\ faults' = Count(ok)
            /\ err' = e
            /\ IF e # ErrNil THEN Return(e)
               ELSE pc' = "go" /\ ret' = ret
    /\ UNCHANGED << connected, connection, call, todo, elapsed, tasks, encVars >>

\* go func(): the goroutine starts, and select starts its timer
ConnectGo ==
    /\ pc = "go"
    /\ tasks' = tasks (+) SetToBag({NewTask})
    /\ elapsed' = 0
    /\ pc' = "select"
    /\ UNCHANGED << connected, connection, call, todo, err, log, ret,
                    faults, encVars >>

\* a second passes while Connect waits in select
Tick ==
    /\ pc = "select"
    /\ elapsed < ConnectTimeout
    /\ elapsed' = elapsed + 1
    /\ UNCHANGED << connected, connection, pc, call, todo, err, log, ret,
                    tasks, faults, encVars >>

\* time.After(b.ConnectTimeout) has fired
TimerFired == elapsed >= ConnectTimeout

\* case <-connected
SelectConnected ==
    /\ pc = "select"
    /\ Cur.connected # << >>
    /\ Leave
    /\ pc' = "sleep"
    /\ elapsed' = 0
    /\ UNCHANGED << connected, connection, call, todo, err, log, ret,
                    faults, encVars >>

\* case e := <-connectError
SelectError ==
    /\ pc = "select"
    /\ Cur.connectError # << >>
    /\ Leave
    /\ Return(Head(Cur.connectError))
    /\ elapsed' = 0
    /\ UNCHANGED << connected, connection, call, todo, err, log,
                    faults, encVars >>

\* case <-time.After(b.ConnectTimeout)
SelectTimeout ==
    /\ pc = "select"
    /\ TimerFired
    /\ Leave
    /\ Return(ErrTimeout)
    /\ elapsed' = 0
    /\ UNCHANGED << connected, connection, call, todo, err, log,
                    faults, encVars >>

\* after select: the sleep of 10 ms, then return nil
ConnectDone ==
    /\ pc = "sleep"
    /\ Return(ErrNil)
    /\ UNCHANGED << connected, connection, call, todo, err, log, elapsed,
                    tasks, faults, encVars >>

(***************************************************************************)
(* The goroutine of Connect.  No step is taken once the process has        *)
(* panicked.  A goroutine whose Connect call has returned leaves the bag   *)
(* when it ends.                                                           *)
(***************************************************************************)
\* the bytes the board sends: the terminator and a payload byte
RxBytes == {ETB, 83}

Running == pc # "panicked"

\* what receive returns after its clearSync, whose result it drops
receiveErr(readErr) == ErrNil

\* receive: one b.read(1) of the loop returns
TaskRead(g) ==
    /\ Running
    /\ g.pc = "read"
    /\ \E ok \in BOOLEAN :
        IF ~ok
        THEN Replace(g, [g EXCEPT !.pc = "sendError", !.err = ErrRead,
                                  !.e = ErrRead, !.inCount = 0])
        ELSE \E inByte \in RxBytes :
             IF inByte = ETB
             THEN Replace(g, [g EXCEPT !.pc = "clearSync"])
             ELSE /\ g.inCount < MaxPayload
                  /\ Replace(g, [g EXCEPT !.inCount = @ + 1])
    /\ UNCHANGED << connected, connection, pc, call, todo, err, log, ret,
                    elapsed, faults, encVars >>

\* receive: b.clearSync() after the terminator, then return
TaskClearSync(g) ==
    /\ Running
    /\ g.pc = "clearSync"
    /\ \E ok \in BOOLEAN :
        LET readErr == IF ok THEN ErrNil ELSE ErrRead
            e == receiveErr(readErr)
        IN  IF e = ErrNil
            THEN Replace(g, [g EXCEPT !.pc = "setConnected", !.err = readErr,
                                      !.inCount = 0])
            ELSE Replace(g, [g EXCEPT !.pc = "sendError", !.err = readErr,
                                      !.e = e, !.inCount = 0])
    /\ UNCHANGED << connected, connection, pc, call, todo, err, log, ret,
                    elapsed, faults, encVars >>

\* b.setConnected(true) in the goroutine
TaskSetConnected(g) ==
    /\ Running
    /\ g.pc = "setConnected"
    /\ setConnected(TRUE)
    /\ Replace(g, [g EXCEPT !.pc = "sendConnected"])
    /\ UNCHANGED << connection, pc, call, todo, err, log, ret, elapsed,
                    faults, encVars >>

\* the goroutine has sent and ends
Sent(g, h) ==
    IF g.cur THEN Replace(g, h) ELSE tasks' = tasks (-) SetToBag({g})

\* connected <- true
TaskSendConnected(g) ==
    /\ Running
    /\ g.pc = "sendConnected"
    /\ Len(g.connected) < ChanCap
    /\ Sent(g, [g EXCEPT !.pc = "done", !.connected = Append(@, TRUE)])
    /\ UNCHANGED << connected, connection, pc, call, todo, err, log, ret,
                    elapsed, faults, encVars >>

\* connectError <- e
TaskSendError(g) ==
    /\ Running
    /\ g.pc = "sendError"
    /\ Len(g.connectError) < ChanCap
    /\ Sent(g, [g EXCEPT !.pc = "done", !.connectError = Append(@, g.e)])
    /\ UNCHANGED << connected, connection, pc, call, todo, err, log, ret,
                    elapsed, faults, encVars >>

Next ==
    \/ Stop_
    \/ LCDClear_
    \/ LCDUpdate_
    \/ EnableGamepad_
    \/ DrawPixel_
    \/ SetRGBLED_
    \/ SetStatusLED_
    \/ DigitalWrite_
    \/ MoveBackward_
    \/ MoveForward_
    \/ Move_
    \/ Disconnect_
    \/ transmit
    \/ clearSync
    \/ ReturnCmd
    \/ DisconnectSetConnected
    \/ DisconnectClose
    \/ ConnectCall
    \/ Connect_
    \/ ConnectSendInit
    \/ ConnectGo
    \/ Tick
    \/ SelectConnected
    \/ SelectError
    \/ SelectTimeout
    \/ ConnectDone
    \/ \E g \in BagToSet(tasks) : TaskRead(g)
    \/ \E g \in BagToSet(tasks) : TaskClearSync(g)
    \/ \E g \in BagToSet(tasks) : TaskSetConnected(g)
    \/ \E g \in BagToSet(tasks) : TaskSendConnected(g)
    \/ \E g \in BagToSet(tasks) : TaskSendError(g)

Spec == New /\ [][Next]_vars

(***************************************************************************)
(* The encoder on its own: every int and every uint of the word is given   *)
(* to intCharArray or uintCharArray.                                       *)
(***************************************************************************)
EncArgs ==
    [kind : {"int"}, n : IntMin..IntMax] \cup [kind : {"uint"}, n : 0..UintMax]

NewEnc ==
    /\ connected = FALSE
    /\ connection = NilConn
    /\ pc = "idle"
    /\ call = [name |-> "New", args |-> << >>]
    /\ todo = << >>
    /\ err = ErrNil
    /\ log = << >>
    /\ ret = [NoRet EXCEPT !.err = ErrNil]
    /\ elapsed = 0
    /\ tasks = EmptyBag
    /\ faults = 0
    /\ encArg \in EncArgs
    /\ encTok = << >>

EncodeInt ==
    /\ encArg.kind = "int"
    /\ encTok = << >>
    /\ encTok' = intCharArray(encArg.n)
    /\ UNCHANGED << connected, connection, pc, call, todo, err, log, ret,
                    elapsed, tasks, faults, encArg >>

EncodeUint ==
    /\ encArg.kind = "uint"
    /\ encTok = << >>
    /\ encTok' = uintCharArray(encArg.n)
    /\ UNCHANGED << connected, connection, pc, call, todo, err, log, ret,
                    elapsed, tasks, faults, encArg >>

NextEnc == EncodeInt \/ EncodeUint

SpecEnc == NewEnc /\ [][NextEnc]_vars

(***************************************************************************)
(* What the claims speak of.                                               *)
(***************************************************************************)
Frame(data) == Append(data, ETB)

\* the decimal text of an integer: a sign if negative, no leading zero
Decimal(n) == IF n < 0 THEN << 45 >> \o FormatDigits(0 - n) ELSE FormatDigits(n)

IsWrite(ev) == ev.k = "write"
IsOkWrite(ev) == ev.k = "write" /\ ev.ok
IsOkRead(ev) == ev.k = "read" /\ ev.ok

\* the frames the call has written, in order
Written(l) == [i \in 1..Len(SelectSeq(l, IsOkWrite)) |-> SelectSeq(l, IsOkWrite)[i].data]

\* the number of acknowledgment bytes the call has consumed
AckCount(l) == Len(SelectSeq(l, IsOkRead))

\* every Write, Read and Close of the call succeeded
AllOk(l) == \A i \in 1..Len(l) : l[i].ok

Returned(name) == pc = "idle" /\ call.name = name

\* the commands made of one opcode and its argument tokens
Commands ==
    {"Stop", "LCDClear", "LCDUpdate", "EnableGamepad", "DrawPixel", "SetRGBLED",
     "SetStatusLED", "DigitalWrite", "MoveBackward", "MoveForward", "Move"}

\* LCDClear(true) is two commands: the clear and the update
TwoCommands == call.name = "LCDClear" /\ call.args[1]

\* the number k of argument tokens of the operation called
ArgTokens ==
    CASE call.name \in {"Stop", "LCDClear", "LCDUpdate", "EnableGamepad"} -> 0
      [] call.name \in {"SetStatusLED", "DigitalWrite", "MoveBackward", "MoveForward"} -> 1
      [] call.name = "DrawPixel" -> 2
      [] call.name \in {"SetRGBLED", "Move"} -> 3

\* C1: a Connect call that finds the client Connected returns the
\* already-connected error, has written and read nothing, and leaves the
\* handle and the state as they were
C1_ConnectWhileConnected ==
    [][(pc = "connect" /\ connected) =>
          /\ connected'
          /\ connection' = connection
          /\ log' = << >>
          /\ pc' = "connect" \/ (pc' = "idle" /\ ret'.err = ErrConnected)]_vars

\* a Connect call with another stream has returned the already-connected
\* error
C1_Witness ==
    /\ Returned("Connect")
    /\ ret.err = ErrConnected
    /\ log = << >>
    /\ connected
    /\ connection # call.args[1]

\* C2: a Connect call whose goroutine is still in its first receive when
\* the call returns has returned the timeout error, not before the timeout,
\* and the client is Disconnected at that moment
C2_TimeoutLeavesDisconnected ==
    (Returned("Connect") /\ ret.task = "read") =>
        /\ ret.err = ErrTimeout
        /\ ret.elapsed >= ConnectTimeout
        /\ ~ret.connected

\* the frames of Stop, SetRGBLED(0,0,0), SetStatusLED(0), LCDClear, LCDUpdate
HaltFrames ==
    << Frame(<< Stop >>),
       Frame(<< SetRGBLED >>), Frame(Decimal(0)), Frame(Decimal(0)), Frame(Decimal(0)),
       Frame(<< SetStatusLED >>), Frame(Decimal(0)),
       Frame(<< LCDClear >>), Frame(<< LCDUpdate >>) >>

\* C3: a Disconnect call that has ended has written the nine frames of the
\* halt sequence in order, and Close came after them
C3_HaltFramesBeforeClose ==
    (call.name = "Disconnect" /\ pc \in {"idle", "panicked"}) =>
        /\ Written(log) = HaltFrames
        /\ log[Len(log)].k = "close"

\* C4: a Connect call that has returned the timeout or an I/O error left
\* the client Disconnected at the moment it returned
C4_FailedConnectDisconnected ==
    (Returned("Connect") /\ ret.err \in {ErrTimeout, ErrRead, ErrWrite}) =>
        ~ret.connected

\* C5: a command that has returned without error has consumed exactly one
\* acknowledgment byte, and that after its last frame
C5_OneAckPerCommand ==
    (pc = "idle" /\ call.name \in Commands /\ ~TwoCommands /\ ret.err = ErrNil) =>
        /\ AckCount(log) = 1
        /\ IsOkRead(log[Len(log)])
        /\ \A i \in 1..(Len(log) - 1) : IsOkWrite(log[i])

\* C6: SetRGBLED(r, g, b) on a stream without errors has written the opcode
\* and the decimal texts of r, g and b, then read one acknowledgment byte,
\* and returned no error
C6_SetRGBLEDFrames ==
    (Returned("SetRGBLED") /\ AllOk(log)) =>
        /\ log = << WriteEv(Frame(<< SetRGBLED >>), TRUE),
                    WriteEv(Frame(Decimal(call.args[1])), TRUE),
                    WriteEv(Frame(Decimal(call.args[2])), TRUE),
                    WriteEv(Frame(Decimal(call.args[3])), TRUE),
                    ReadEv(TRUE) >>
        /\ ret.err = ErrNil

\* the goroutine of the waiting Connect call stores true
StoreByWaiting ==
    /\ pc = "select"
    /\ Cur.pc = "setConnected"
    /\ tasks' = (tasks (-) SetToBag({Cur}))
                (+) SetToBag({[Cur EXCEPT !.pc = "sendConnected"]})

\* C7: the state becomes Connected only by the goroutine of a Connect call
\* that is still waiting in select
C7_ConnectedOnlyWhileWaiting ==
    [][(~connected /\ connected') => StoreByWaiting]_vars

\* C8: Disconnect stores false, then closes, and returns what Close
\* returned; Connected() is false when it returns
C8_DisconnectedBeforeClose ==
    Returned("Disconnect") =>
        /\ Len(log) >= 2
        /\ log[Len(log) - 1] = StoreEv(FALSE)
        /\ log[Len(log)].k = "close"
        /\ ret.err = (IF log[Len(log)].ok THEN ErrNil ELSE ErrClose)
        /\ ~ret.connected

\* C9 as stated: an operation with k argument tokens, on a stream without
\* errors, writes k frames and reads one acknowledgment byte
C9_KFrames ==
    (pc = "idle" /\ call.name \in Commands /\ ~TwoCommands /\ AllOk(log)) =>
        /\ Len(Written(log)) = ArgTokens
        /\ AckCount(log) = 1

\* C9 amended: an operation with k argument tokens, on a stream without
\* errors, writes k + 1 frames, the opcode and the k tokens, and reads one
\* acknowledgment byte; LCDClear(true), being two commands, writes two
\* frames and reads two
C9_KPlusOneFrames ==
    (pc = "idle" /\ call.name \in Commands /\ AllOk(log)) =>
        /\ Len(Written(log)) = ArgTokens + (IF TwoCommands THEN 2 ELSE 1)
        /\ AckCount(log) = (IF TwoCommands THEN 2 ELSE 1)
        /\ ret.err = ErrNil

\* DrawPixel has returned on a stream without errors
C9_Witness ==
    /\ Returned("DrawPixel")
    /\ AllOk(log)
    /\ Len(Written(log)) = 3
    /\ AckCount(log) = 1

\* C10: the token of n is the decimal text of n, and decoding it gives n
C10_EncodeRoundTrip ==
    (encTok # << >>) =>
        /\ encTok = Decimal(encArg.n)
        /\ Atoi(encTok) = encArg.n

\* C11: DigitalWrite(pin, value) on a stream without errors has written the
\* frames of SetStatusLED(100) if value > 0 and of SetStatusLED(0) otherwise,
\* then read one acknowledgment byte, whatever the pin
C11_DigitalWriteIsStatusLED ==
    (Returned("DigitalWrite") /\ AllOk(log)) =>
        /\ log = << WriteEv(Frame(<< SetStatusLED >>), TRUE),
                    WriteEv(Frame(Decimal(IF call.args[2] > 0 THEN 100 ELSE 0)), TRUE),
                    ReadEv(TRUE) >>
        /\ ret.err = ErrNil

\* DigitalWrite(13, 1) has returned on a stream without errors
C11_Witness ==
    /\ Returned("DigitalWrite")
    /\ AllOk(log)
    /\ call.args = << 13, 1 >>
    /\ Len(log) = 3

\* a Read of the call failed
ReadFailed(l) == \E i \in 1..Len(l) : l[i].k = "read" /\ ~l[i].ok

\* a Write of the call failed
WriteFailed(l) == \E i \in 1..Len(l) : l[i].k = "write" /\ ~l[i].ok

\* C12: a command whose acknowledgment read failed has returned that read
\* error
C12_AckReadErrorReturned ==
    (pc = "idle" /\ call.name \in Commands /\ ReadFailed(log)) =>
        ret.err = ErrRead

\* C13: a Disconnect call in which a frame write of the halt sequence failed
\* has returned that error, and the client is Disconnected
C13_HaltFailureReported ==
    (Returned("Disconnect") /\ WriteFailed(log)) =>
        /\ ret.err = ErrWrite
        /\ ~ret.connected

\* C14: a Connect call whose write of the initialization frame failed has
\* returned the write error, without starting its goroutine, and the client
\* is Disconnected
C14_InitWriteErrorAborts ==
    (call.name = "Connect" /\ WriteFailed(log)) =>
        /\ pc = "idle"
        /\ ret.err = ErrWrite
        /\ ~ret.connected

\* the commands of an opcode and at least one argument token
MultiToken ==
    {"DrawPixel", "SetRGBLED", "SetStatusLED", "MoveBackward", "MoveForward", "Move"}

\* C15: in a multi-token command a frame write that failed is the last
\* thing the command did to the stream: before it only frames written once
\* each, no acknowledgment read, nothing after it, and the command returns
\* the write error
C15_FirstWriteErrorAborts ==
    (call.name \in MultiToken /\ WriteFailed(log)) =>
        /\ IsWrite(log[Len(log)]) /\ ~log[Len(log)].ok
        /\ \A i \in 1..(Len(log) - 1) : IsOkWrite(log[i])
        /\ Len(log) <= 1 + ArgTokens
        /\ pc \in {"tx", "idle"}
        /\ (pc = "idle" => ret.err = ErrWrite)

\* SetRGBLED has returned after the write of its second frame failed
C15_Witness ==
    /\ Returned("SetRGBLED")
    /\ Len(log) = 2
    /\ IsOkWrite(log[1])
    /\ IsWrite(log[2]) /\ ~log[2].ok
    /\ ret.err = ErrWrite

\* C16: a goroutine of Connect whose receive cycle had a read error, the
\* read of the trailing acknowledgment byte included, reports that error
\* and never marks the client Connected
C16_ReadErrorPropagated ==
    \A g \in BagToSet(tasks) :
        g.err # ErrNil =>
            /\ g.pc \in {"sendError", "done"}
            /\ g.e = g.err
            /\ g.connected = << >>

\* the goroutines that are in a b.read(1), or about to call it
Reading == {g \in BagToSet(tasks) : g.pc \in {"read", "clearSync"}}

\* the number of flows that are reading the stream
Readers ==
    BagCardinality([g \in Reading |-> CopiesIn(g, tasks)])
    + (IF pc = "clearSync" THEN 1 ELSE 0)

\* C17: when a Connect call has returned success no goroutine is left to
\* read the stream: every later read is an acknowledgment read of the
\* controlling flow
C17_NoReaderAfterConnect ==
    (Returned("Connect") /\ ret.err = ErrNil) => Reading = {}

\* C18: a Disconnect call never crashes, and the client is Disconnected
\* when it returns
C18_DisconnectCompletes ==
    call.name = "Disconnect" =>
        /\ pc # "panicked"
        /\ (pc = "idle" => ~ret.connected)

\* C19: at most one flow is reading the stream
C19_SingleReader == Readers <= 1

\* C20: a goroutine of Connect that has its outcome to report finds room
\* in the channel it sends on, so the send does not block, also when its
\* Connect call has returned
C20_SendNeverBlocks ==
    \A g \in BagToSet(tasks) :
        /\ g.pc = "sendConnected" => Len(g.connected) < ChanCap
        /\ g.pc = "sendError" => Len(g.connectError) < ChanCap
        /\ g.pc # "done" => (g.connected = << >> /\ g.connectError = << >>)

\* a goroutine whose Connect call has returned on timeout is about to send
\* its outcome
C20_Witness ==
    /\ ret.err = ErrTimeout
    /\ \E g \in BagToSet(tasks) :
          ~g.cur /\ g.pc \in {"sendConnected", "sendError"}

====
